---- MODULE Spec2Model ----
(***************************************************************************)
(* A model of rudit's line buffer (src/src/buffer.rs) and of the geometry  *)
(* type it uses (src/src/pos.rs).                                          *)
(*                                                                         *)
(* A line is a Rust String: a sequence of UTF-8 bytes.  String::len,       *)
(* insert_str and str::get all count bytes, and the last two only accept   *)
(* indices on a character boundary, so a line is modelled as the sequence  *)
(* of its bytes.  usize is modelled by the naturals; the one subtraction   *)
(* of the code that can underflow in a reachable state is modelled by its  *)
(* two outcomes (panic in a build with overflow checks, wrap-around        *)
(* without).                                                               *)
(*                                                                         *)
(* The Editor (src/src/editor.rs) owns two buffers and a mode.  Its fields *)
(* config and last_keypress are not state of the model: a key event is     *)
(* given by what the keybinding table of the mode makes of it (an action,  *)
(* or no binding and a key code), and last_keypress is only printed.       *)
(***************************************************************************)
EXTENDS Integers, Sequences, FiniteSets, TLC

VARIABLES
    buffer,   \* the Buffer: data, cursor, scroll, viewport_size, top_left_corner
    build,    \* "debug" (overflow checks on) or "release" (wrapping arithmetic)
    op,       \* the last operation called: its name and how it ended
    before,   \* history: the buffer as it was before the last insert, split or save
    file,     \* the bytes last written by save_to_file
    editor,   \* the Editor: window_size, edit_buffer, state, filename,
              \* need_full_clear, command_buffer
    cmdline   \* a command line given to EditorCommand::from_str on its own:
              \* its bytes, and what from_str returned for it

vars == <<buffer, build, op, before, file, editor, cmdline>>

(***************************************************************************)
(* Bounds of the model.                                                    *)
(***************************************************************************)
MaxDoc == 4        \* an edit is not taken beyond a document of this many bytes as saved
MaxN == 2          \* the counts n passed to move_left_n, move_right_n, delete_*
MaxCoord == 1      \* the greatest coordinate passed to move_cursor and move_cursor_relative
MaxView == 1       \* the greatest viewport width and height passed to set_viewport_size
MaxText == 3       \* the length of the texts passed to load_from_str
MaxEdit == 1       \* the Editor's document is not taken beyond this many bytes as saved
MaxCmd == 1        \* the bytes typed into the command line, or after its prompt
MaxWin == 3        \* the greatest terminal height passed to Resize

Builds == {"debug", "release"}

(***************************************************************************)
(* Bytes.  "a" is an ASCII letter; "c3" "a9" are the two bytes of the      *)
(* character U+00E9; "CR" and "LF" are 0x0D and 0x0A.                      *)
(***************************************************************************)
IsContinuation(byte) == byte = "a9"

Texts == {<<"a">>, <<"c3", "a9">>}

Min(a, b) == IF a <= b THEN a ELSE b

(***************************************************************************)
(* pos.rs                                                                  *)
(***************************************************************************)
Pos(x, y) == [x |-> x, y |-> y]

\* checked_sub(b).unwrap_or_default()
SatSub(a, b) == IF a >= b THEN a - b ELSE 0

PosAdd(p, q) == Pos(p.x + q.x, p.y + q.y)

PosSub(p, q) == Pos(SatSub(p.x, q.x), SatSub(p.y, q.y))

(***************************************************************************)
(* Outcomes of a buffer operation: the buffer it leaves, how it ended      *)
(* ("ok", "err": Err returned, "panic": the thread panicked) and the value *)
(* it returned.                                                            *)
(***************************************************************************)
Ok(b) == [b |-> b, res |-> "ok", ret |-> 0]
OkRet(b, n) == [b |-> b, res |-> "ok", ret |-> n]
Err(b) == [b |-> b, res |-> "err", ret |-> 0]
Panic(b) == [b |-> b, res |-> "panic", ret |-> 0]

\* `r` followed by `F` on the buffer r left, unless r did not complete.
Then(r, F(_)) == IF r.res = "ok" THEN F(r.b) ELSE r

(***************************************************************************)
(* str and Vec helpers, as the standard library defines them.              *)
(***************************************************************************)
\* data.get(y).map(|l| l.len()).unwrap_or_default()
LineLen(data, y) == IF y < Len(data) THEN Len(data[y + 1]) ELSE 0

\* str::is_char_boundary
IsCharBoundary(line, i) ==
    \/ i = 0
    \/ i = Len(line)
    \/ i < Len(line) /\ ~IsContinuation(line[i + 1])

\* str::get(from..to) is Some
HasSlice(line, from, to) ==
    from <= to /\ to <= Len(line) /\ IsCharBoundary(line, from) /\ IsCharBoundary(line, to)

Slice(line, from, to) == SubSeq(line, from + 1, to)

\* Vec::remove(y)
RemoveAt(data, y) == SubSeq(data, 1, y) \o SubSeq(data, y + 2, Len(data))

\* Vec::insert(y, line)
InsertAt(data, y, line) == SubSeq(data, 1, y) \o <<line>> \o SubSeq(data, y + 1, Len(data))

(***************************************************************************)
(* buffer.rs                                                               *)
(***************************************************************************)
\* Buffer::new
NewBuffer ==
    [data |-> <<>>, cursor |-> Pos(0, 0), scroll |-> Pos(0, 0),
     viewport_size |-> Pos(0, 0), top_left_corner |-> Pos(0, 0)]

set_viewport_size(b, size) == [b EXCEPT !.viewport_size = size]

\* A cap_scroll that follows the cursor down and right only.
cap_scroll_forward_only(b, bld) ==
    LET c == b.cursor
        s == b.scroll
        v == b.viewport_size
        x == IF c.x > s.x + v.x - 1 THEN c.x - v.x + 1 ELSE s.x
        y == IF c.y > s.y + v.y - 1 THEN c.y - v.y + 1 ELSE s.y
    IN  IF s.x + v.x = 0 /\ bld = "debug"
        THEN Panic(b)
        ELSE Ok([b EXCEPT !.scroll = Pos(x, y)])

\* scroll.x + viewport_size.x - 1 underflows when both are 0: a panic with
\* overflow checks; without them the sum wraps to usize::MAX, which no cursor
\* exceeds, so scroll.x is kept.  The other subtractions are guarded by the
\* comparisons before them.
cap_scroll(b, bld) ==
    LET c == b.cursor
        s == b.scroll
        v == b.viewport_size
        underflow == s.x + v.x = 0
        x == IF c.x < s.x THEN c.x
             ELSE IF ~underflow /\ c.x > s.x + v.x - 1 THEN c.x - v.x + 1
             ELSE s.x
        y == IF c.y < s.y THEN c.y
             ELSE IF c.y > s.y + SatSub(v.y, 1) THEN c.y - v.y + 1
             ELSE s.y
    IN  IF underflow /\ bld = "debug"
        THEN Panic(b)
        ELSE Ok([b EXCEPT !.scroll = Pos(x, y)])

\* As move_cursor, with the line index capped at the line count (not at the
\* last line).
move_cursor_capped_at_len(b, pos, bld) ==
    LET y == Min(pos.y, Len(b.data))
        x == Min(LineLen(b.data, y), pos.x)
    IN  cap_scroll([b EXCEPT !.cursor = Pos(x, y)], bld)

move_cursor(b, pos, bld) ==
    LET y == Min(pos.y, SatSub(Len(b.data), 1))
        x == Min(LineLen(b.data, y), pos.x)
    IN  cap_scroll([b EXCEPT !.cursor = Pos(x, y)], bld)

move_cursor_relative(b, pos) == [b EXCEPT !.cursor = PosAdd(b.cursor, pos)]

move_up(b, bld) ==
    LET pos == Pos(b.cursor.x, IF b.cursor.y >= 1 THEN b.cursor.y - 1 ELSE b.cursor.y)
    IN  Then(move_cursor(b, pos, bld), LAMBDA b1 : cap_scroll(b1, bld))

move_down(b, bld) ==
    LET pos == Pos(b.cursor.x, b.cursor.y + 1)
    IN  Then(move_cursor(b, pos, bld), LAMBDA b1 : cap_scroll(b1, bld))

\* The loop of move_left_n: the cursor and the count it ends with.
RECURSIVE move_left_loop(_, _, _, _)
move_left_loop(data, cursor, moved, n) ==
    IF ~(moved < n) \/ cursor = Pos(0, 0)
    THEN [cursor |-> cursor, moved |-> moved]
    ELSE IF cursor.x = 0
    THEN move_left_loop(data, Pos(LineLen(data, cursor.y - 1), cursor.y - 1), moved + 1, n)
    ELSE IF cursor.x >= n - moved
    THEN move_left_loop(data, Pos(cursor.x - (n - moved), cursor.y), moved + (n - moved), n)
    ELSE move_left_loop(data, Pos(0, cursor.y), moved + cursor.x, n)

move_left_n(b, n, bld) ==
    LET l == move_left_loop(b.data, b.cursor, 0, n)
        r == cap_scroll([b EXCEPT !.cursor = l.cursor], bld)
    IN  IF r.res = "ok" THEN OkRet(r.b, l.moved) ELSE r

\* The loop of move_right_n.  data.get(cursor.y) is unwrapped: a panic when the
\* cursor is on no line.  current_line_len - cursor.x underflows when the cursor
\* is past the end of its line: a panic with overflow checks, and without them a
\* difference near usize::MAX, which is >= n - moved.
RECURSIVE move_right_loop(_, _, _, _, _)
move_right_loop(data, cursor, moved, n, bld) ==
    LET last_cursor_y_pos == SatSub(Len(data), 1)
        file_end_pos == Pos(LineLen(data, last_cursor_y_pos), last_cursor_y_pos)
        current_line_len == Len(data[cursor.y + 1])
    IN  IF ~(moved < n) \/ cursor = file_end_pos
        THEN [cursor |-> cursor, moved |-> moved, res |-> "ok"]
        ELSE IF ~(cursor.y < Len(data))
        THEN [cursor |-> cursor, moved |-> moved, res |-> "panic"]
        ELSE IF cursor.x = current_line_len
        THEN move_right_loop(data, Pos(0, cursor.y + 1), moved + 1, n, bld)
        ELSE IF cursor.x > current_line_len /\ bld = "debug"
        THEN [cursor |-> cursor, moved |-> moved, res |-> "panic"]
        ELSE IF cursor.x > current_line_len \/ current_line_len - cursor.x >= n - moved
        THEN move_right_loop(data, Pos(cursor.x + (n - moved), cursor.y),
                             moved + (n - moved), n, bld)
        ELSE move_right_loop(data, Pos(current_line_len, cursor.y), moved + cursor.x, n, bld)

move_right_n(b, n, bld) ==
    LET l == move_right_loop(b.data, b.cursor, 0, n, bld)
        r == cap_scroll([b EXCEPT !.cursor = l.cursor], bld)
    IN  IF l.res = "panic" THEN Panic(b)
        ELSE IF r.res = "ok" THEN OkRet(r.b, l.moved) ELSE r

\* String::insert_str panics unless the index is on a character boundary of the
\* line (which an index past its end is not).
add_str_at_cursor(b, text, bld) ==
    LET cursor == b.cursor
        line == b.data[cursor.y + 1]
        inserted == Slice(line, 0, cursor.x) \o text \o Slice(line, cursor.x, Len(line))
        target == PosAdd(cursor, Pos(Len(text), 0))
    IN  IF cursor.y < Len(b.data)
        THEN IF cursor.x <= Len(line) /\ IsCharBoundary(line, cursor.x)
             THEN Then(Then(move_cursor([b EXCEPT !.data[cursor.y + 1] = inserted], target, bld),
                            LAMBDA b1 : cap_scroll(b1, bld)),
                       LAMBDA b2 : Ok(b2))
             ELSE Panic(b)
        ELSE Then(Then(move_cursor([b EXCEPT !.data = Append(b.data, text)], target, bld),
                       LAMBDA b1 : cap_scroll(b1, bld)),
                  LAMBDA b2 : Ok(b2))

\* As CutBefore, without the rest of the line.
CutBefore_without_rest(line, from, to) == Slice(line, 0, from)

\* The line without its units from..to-1: the start slice and the end slice
\* that delete_n_chars_back_from_cursor puts together.
CutBefore(line, from, to) == Slice(line, 0, from) \o Slice(line, to, Len(line))

\* The loop of delete_n_chars_back_from_cursor: it edits self.data in place, so
\* the lines it has changed stay changed when a later pass returns Err.
RECURSIVE delete_back_loop(_, _, _, _)
delete_back_loop(data, cursor, deleted, n) ==
    LET current_line == data[cursor.y + 1]
        prev_line == data[cursor.y]
        joined == [RemoveAt(data, cursor.y) EXCEPT ![cursor.y] = prev_line \o current_line]
        cut == CutBefore(current_line, cursor.x + deleted - n, cursor.x)
    IN  IF ~(deleted < n) \/ cursor = Pos(0, 0)
        THEN [data |-> data, cursor |-> cursor, res |-> "ok"]
        ELSE IF ~(cursor.y < Len(data))
        THEN [data |-> data, cursor |-> cursor, res |-> "err"]
        ELSE IF cursor.x = 0
        THEN delete_back_loop(joined, Pos(Len(prev_line), cursor.y - 1), deleted + 1, n)
        ELSE IF cursor.x >= n - deleted
        THEN IF /\ HasSlice(current_line, 0, cursor.x + deleted - n)
                /\ HasSlice(current_line, cursor.x, Len(current_line))
             THEN delete_back_loop([data EXCEPT ![cursor.y + 1] = cut],
                                   Pos(cursor.x - (n - deleted), cursor.y),
                                   deleted + (n - deleted), n)
             ELSE [data |-> data, cursor |-> cursor, res |-> "err"]
        ELSE delete_back_loop([data EXCEPT ![cursor.y + 1] = <<>>],
                              Pos(0, cursor.y), deleted + cursor.x, n)

delete_n_chars_back_from_cursor(b, n, bld) ==
    LET l == delete_back_loop(b.data, b.cursor, 0, n)
    IN  IF l.res = "err"
        THEN Err([b EXCEPT !.data = l.data])
        ELSE cap_scroll([b EXCEPT !.data = l.data, !.cursor = l.cursor], bld)

delete_n_chars_front_from_cursor(b, n, bld) ==
    LET m == move_right_n(b, n, bld)
    IN  IF m.res = "ok" THEN delete_n_chars_back_from_cursor(m.b, m.ret, bld) ELSE m

\* As SplitLine, with the start of the line put after its end.
SplitLine_start_after_end(data, cursor) ==
    LET current_line == data[cursor.y + 1]
    IN  InsertAt([data EXCEPT ![cursor.y + 1] =
                      Slice(current_line, cursor.x, Len(current_line))],
                 cursor.y + 1, Slice(current_line, 0, cursor.x))

\* The lines after add_line_at_cursor has cut the cursor's line: the line keeps
\* its end, and its start is inserted before it.
SplitLine(data, cursor) ==
    LET current_line == data[cursor.y + 1]
    IN  InsertAt([data EXCEPT ![cursor.y + 1] =
                      Slice(current_line, cursor.x, Len(current_line))],
                 cursor.y, Slice(current_line, 0, cursor.x))

\* An add_line_at_cursor that leaves the cursor on the line it cut.
add_line_at_cursor_cursor_stays(b, bld) ==
    LET cursor == b.cursor
        current_line == b.data[cursor.y + 1]
        target == Pos(0, cursor.y)
    IN  IF cursor.y < Len(b.data)
        THEN IF HasSlice(current_line, cursor.x, Len(current_line))
             THEN Then(Then(move_cursor([b EXCEPT !.data = SplitLine(b.data, cursor)],
                                        target, bld),
                            LAMBDA b1 : cap_scroll(b1, bld)),
                       LAMBDA b2 : Ok(b2))
             ELSE Err(b)
        ELSE Then(Then(move_cursor([b EXCEPT !.data = Append(b.data, <<>>)], target, bld),
                       LAMBDA b1 : cap_scroll(b1, bld)),
                  LAMBDA b2 : Ok(b2))

add_line_at_cursor(b, bld) ==
    LET cursor == b.cursor
        current_line == b.data[cursor.y + 1]
        split == SplitLine(b.data, cursor)
        target == Pos(0, cursor.y + 1)
    IN  IF cursor.y < Len(b.data)
        THEN IF HasSlice(current_line, cursor.x, Len(current_line))
             THEN Then(Then(move_cursor([b EXCEPT !.data = split], target, bld),
                            LAMBDA b1 : cap_scroll(b1, bld)),
                       LAMBDA b2 : Ok(b2))
             ELSE Err(b)
        ELSE Then(Then(move_cursor([b EXCEPT !.data = Append(b.data, <<>>)], target, bld),
                       LAMBDA b1 : cap_scroll(b1, bld)),
                  LAMBDA b2 : Ok(b2))

\* str::lines: the text is cut after every line feed; a piece loses its line feed
\* and then a carriage return before it; a last piece without a line feed is
\* kept as it is, and an empty last piece is no line.
StripCR(line) ==
    IF Len(line) > 0 /\ line[Len(line)] = "CR" THEN SubSeq(line, 1, Len(line) - 1) ELSE line

RECURSIVE LinesFrom(_, _, _)
LinesFrom(s, i, piece) ==
    IF i > Len(s) THEN (IF piece = <<>> THEN <<>> ELSE <<piece>>)
    ELSE IF s[i] = "LF" THEN <<StripCR(piece)>> \o LinesFrom(s, i + 1, <<>>)
    ELSE LinesFrom(s, i + 1, Append(piece, s[i]))

Lines(s) == LinesFrom(s, 1, <<>>)

load_from_str(s) == [NewBuffer EXCEPT !.data = Lines(s)]

endl == <<"LF">>

\* The bytes save_to_file hands to fs::write.
RECURSIVE JoinLines(_)
JoinLines(data) ==
    IF data = <<>> THEN <<>> ELSE (Head(data) \o endl) \o JoinLines(Tail(data))

\* As save_to_file, with the terminator between the lines only.
RECURSIVE JoinLinesBetween(_)
JoinLinesBetween(data) ==
    IF Len(data) <= 1 THEN (IF data = <<>> THEN <<>> ELSE Head(data))
    ELSE (Head(data) \o endl) \o JoinLinesBetween(Tail(data))

save_to_file_terminator_between(b) == JoinLinesBetween(b.data)

save_to_file(b) == JoinLines(b.data)

(***************************************************************************)
(* The state machine: one action per public operation of Buffer.           *)
(***************************************************************************)
\* The coordinates and the viewport sizes that are passed: 0 and the greatest,
\* on each axis.
Coords == {Pos(x, y) : x \in {0, MaxCoord}, y \in {0, MaxCoord}}

ViewportSizes == {Pos(x, y) : x \in {0, MaxView}, y \in {0, MaxView}}

\* The part of the state space that is explored: documents of at most MaxDoc
\* bytes as saved, and cursors at most one line or column beyond those.
InBounds(b) ==
    /\ Len(save_to_file(b)) <= MaxDoc
    /\ b.cursor.x <= MaxDoc
    /\ b.cursor.y <= MaxDoc

\* Editor::new
NewEditor ==
    [window_size |-> Pos(0, 0), edit_buffer |-> NewBuffer, state |-> "Init",
     filename |-> <<>>, need_full_clear |-> FALSE, command_buffer |-> NewBuffer]

NoOp == [name |-> "new", res |-> "ok"]

NoBefore == [kind |-> "none", n |-> 0, b |-> NewBuffer]

Init ==
    /\ buffer = NewBuffer
    /\ build \in Builds
    /\ op = NoOp
    /\ before = NoBefore
    /\ file = <<>>
    /\ editor = <<>>      \* a Buffer on its own: no Editor
    /\ cmdline = <<>>     \* and no command line

\* A panic ends the program.
Running == op.res # "panic"

\* A call with outcome r: the buffer is as the call left it.
Call(name, r, bef) ==
    \E out \in {r} :
        /\ InBounds(out.b)
        /\ buffer' = out.b
        /\ op' = [name |-> name, res |-> out.res]
        /\ before' = bef
        /\ UNCHANGED <<build, file, editor, cmdline>>

SetViewportSize ==
    /\ Running
    /\ \E size \in ViewportSizes :
        Call("set_viewport_size", Ok(set_viewport_size(buffer, size)), NoBefore)

MoveCursor ==
    /\ Running
    /\ \E pos \in Coords :
        Call("move_cursor", move_cursor(buffer, pos, build), NoBefore)

\* Explored for the offsets that leave the cursor at most one line and one
\* column outside the document.
NearDocument(b) ==
    /\ b.cursor.y <= Len(b.data)
    /\ b.cursor.x <= LineLen(b.data, b.cursor.y) + 1

MoveCursorRelative ==
    /\ Running
    /\ \E pos \in Coords :
        /\ NearDocument(move_cursor_relative(buffer, pos))
        /\ Call("move_cursor_relative", Ok(move_cursor_relative(buffer, pos)), NoBefore)

MoveUp ==
    /\ Running
    /\ Call("move_up", move_up(buffer, build), NoBefore)

MoveDown ==
    /\ Running
    /\ Call("move_down", move_down(buffer, build), NoBefore)

MoveLeftN ==
    /\ Running
    /\ \E n \in 0..MaxN :
        Call("move_left_n", move_left_n(buffer, n, build), NoBefore)

MoveRightN ==
    /\ Running
    /\ \E n \in 0..MaxN :
        Call("move_right_n", move_right_n(buffer, n, build), NoBefore)

AddStrAtCursor ==
    /\ Running
    /\ \E text \in Texts :
        LET r == add_str_at_cursor(buffer, text, build)
        IN  Call("add_str_at_cursor", r,
                 IF r.res = "ok"
                 THEN [kind |-> "add_str", n |-> Len(text), b |-> buffer]
                 ELSE NoBefore)

AddLineAtCursor ==
    /\ Running
    /\ LET r == add_line_at_cursor(buffer, build)
       IN  Call("add_line_at_cursor", r,
                IF r.res = "ok"
                THEN [kind |-> "add_line", n |-> 1, b |-> buffer]
                ELSE NoBefore)

\* `before` is kept over the delete_back that undoes the insert or split it was
\* taken for, and dropped by any other call.
DeleteBack ==
    /\ Running
    /\ \E n \in 0..MaxN :
        Call("delete_n_chars_back_from_cursor",
             delete_n_chars_back_from_cursor(buffer, n, build),
             IF before.kind \in {"add_str", "add_line"} /\ before.n = n
             THEN [before EXCEPT !.kind = "undone_" \o before.kind]
             ELSE NoBefore)

DeleteFront ==
    /\ Running
    /\ \E n \in 0..MaxN :
        Call("delete_n_chars_front_from_cursor",
             delete_n_chars_front_from_cursor(buffer, n, build), NoBefore)

Next ==
    \/ SetViewportSize
    \/ MoveCursor
    \/ MoveCursorRelative
    \/ MoveUp
    \/ MoveDown
    \/ MoveLeftN
    \/ MoveRightN
    \/ AddStrAtCursor
    \/ AddLineAtCursor
    \/ DeleteBack
    \/ DeleteFront

Spec == Init /\ [][Next]_vars

(***************************************************************************)
(* Loading and saving, as a state machine of its own: a text is loaded,    *)
(* the buffer is saved, the saved file is loaded again.                    *)
(***************************************************************************)
FileBytes == {"a", "CR", "LF"}

FileTexts == UNION {[1..k -> FileBytes] : k \in 0..MaxText}

Prefixes(bytes) == {SubSeq(bytes, 1, k) : k \in 0..Len(bytes)}

LoadFromStr ==
    \E s \in FileTexts :
        /\ buffer' = load_from_str(s)
        /\ op' = [name |-> "load_from_str", res |-> "ok"]
        /\ before' = NoBefore
        /\ UNCHANGED <<build, file, editor, cmdline>>

\* fs::write either writes all the bytes or fails: before it opened the file,
\* or after it wrote only some of them.
SaveToFile ==
    \/ /\ file' = save_to_file(buffer)
       /\ op' = [name |-> "save_to_file", res |-> "ok"]
       /\ before' = [kind |-> "save", n |-> 0, b |-> buffer]
       /\ UNCHANGED <<buffer, build, editor, cmdline>>
    \/ /\ file' \in {file} \cup (Prefixes(save_to_file(buffer)) \ {save_to_file(buffer)})
       /\ op' = [name |-> "save_to_file", res |-> "err"]
       /\ before' = NoBefore
       /\ UNCHANGED <<buffer, build, editor, cmdline>>

\* load_from_file splits what fs::read_to_string returns as load_from_str does.
\* Err (the file cannot be read) builds no buffer.
LoadFromFile ==
    \/ /\ buffer' = load_from_str(file)
       /\ op' = [name |-> "load_from_file", res |-> "ok"]
       /\ before' = IF before.kind = "save" THEN [before EXCEPT !.kind = "reloaded"]
                     ELSE NoBefore
       /\ UNCHANGED <<build, file, editor, cmdline>>
    \/ /\ op' = [name |-> "load_from_file", res |-> "err"]
       /\ before' = NoBefore
       /\ UNCHANGED <<buffer, build, file, editor, cmdline>>

NextFile ==
    \/ LoadFromStr
    \/ SaveToFile
    \/ LoadFromFile

SpecFile == Init /\ [][NextFile]_vars

(***************************************************************************)
(* The vocabulary of the claims.                                           *)
(***************************************************************************)
\* The cursor is on a line of the document (line 0 when there is none) and at
\* most at the end of that line.
CursorInBounds(b) ==
    /\ b.cursor.y <= SatSub(Len(b.data), 1)
    /\ b.cursor.x <= LineLen(b.data, b.cursor.y)

\* The cursor is not inside a character.
CursorOnChar(b) ==
    b.cursor.y < Len(b.data) => IsCharBoundary(b.data[b.cursor.y + 1], b.cursor.x)

\* In each axis with a viewport size that is not 0, the cursor is in the window.
CursorVisible(b) ==
    /\ b.viewport_size.x # 0 =>
          b.scroll.x <= b.cursor.x /\ b.cursor.x <= b.scroll.x + b.viewport_size.x - 1
    /\ b.viewport_size.y # 0 =>
          b.scroll.y <= b.cursor.y /\ b.cursor.y <= b.scroll.y + b.viewport_size.y - 1

\* The document as one sequence of addressable units: the units of its lines,
\* with one unit ("LF") for each line break between two lines.
RECURSIVE Flat(_)
Flat(data) ==
    IF Len(data) <= 1 THEN (IF data = <<>> THEN <<>> ELSE data[1])
    ELSE data[1] \o <<"LF">> \o Flat(Tail(data))

\* The number of units before position (x, y).
RECURSIVE UnitsBefore(_, _, _)
UnitsBefore(data, x, y) ==
    IF y = 0 THEN x ELSE Len(data[1]) + 1 + UnitsBefore(Tail(data), x, y - 1)

Offset(b) == UnitsBefore(b.data, b.cursor.x, b.cursor.y)

\* `units` without the units from..to-1 (counted from 0).
Without(units, from, to) == SubSeq(units, 1, from) \o SubSeq(units, to + 1, Len(units))

\* The state is one in which a call may be made on a buffer with a valid cursor.
ValidState == Running /\ CursorInBounds(buffer) /\ CursorOnChar(buffer)

(***************************************************************************)
(* C1.  After every move_cursor call, on any buffer and for any target,    *)
(* the cursor is on a line of the document (on line 0 when the document is *)
(* empty) and not beyond the end of that line.  Stated of the call made    *)
(* last, and of every call that can be made next.                          *)
(***************************************************************************)
C1_MoveCursorInBounds ==
    /\ op.name = "move_cursor" => CursorInBounds(buffer)
    /\ \A pos \in Coords : CursorInBounds(move_cursor(buffer, pos, build).b)

\* move_cursor has returned on a document of two lines and left the cursor at
\* the end of the last one.
C1_Witness ==
    /\ op.name = "move_cursor" /\ op.res = "ok"
    /\ Len(buffer.data) = 2 /\ buffer.cursor = Pos(Len(buffer.data[2]), 1)
    /\ Len(buffer.data[2]) > 0

(***************************************************************************)
(* C2.  From a buffer whose cursor is within bounds, each of move_up,      *)
(* move_down, move_left_n, move_right_n, add_str_at_cursor,                *)
(* add_line_at_cursor, delete_n_chars_back_from_cursor and                 *)
(* delete_n_chars_front_from_cursor leaves the cursor within bounds.       *)
(***************************************************************************)
C2_Operations ==
    {"move_up", "move_down", "move_left_n", "move_right_n", "add_str_at_cursor",
     "add_line_at_cursor", "delete_n_chars_back_from_cursor",
     "delete_n_chars_front_from_cursor"}

C2_CursorStaysInBounds ==
    [][(CursorInBounds(buffer) /\ op'.name \in C2_Operations) => CursorInBounds(buffer')]_vars

(***************************************************************************)
(* C3.  After every public operation that returns, the cursor is visible:  *)
(* in each axis where viewport_size is not 0,                              *)
(* scroll <= cursor <= scroll + viewport_size - 1.                         *)
(***************************************************************************)
C3_CursorStaysVisible == op.res = "ok" => CursorVisible(buffer)

(***************************************************************************)
(* C4.  move_cursor_relative clamps the cursor into the document and caps  *)
(* the scroll again, as move_cursor does.                                  *)
(***************************************************************************)
C4_RelativeMoveClamps ==
    op.name = "move_cursor_relative" => CursorInBounds(buffer) /\ CursorVisible(buffer)

(***************************************************************************)
(* C5.  delete_n_chars_back_from_cursor(n) from a valid cursor, when it    *)
(* returns Ok, has removed exactly the min(n, units before the cursor)     *)
(* units before the cursor, a line break counting as one unit, and left    *)
(* the cursor where the removed span began.                                *)
(***************************************************************************)
C5_DeleteBackRemovesSpan ==
    \A n \in 0..MaxN :
        LET r == delete_n_chars_back_from_cursor(buffer, n, build)
            k == Min(n, Offset(buffer))
        IN  (ValidState /\ r.res = "ok") =>
                /\ Flat(r.b.data) = Without(Flat(buffer.data), Offset(buffer) - k, Offset(buffer))
                /\ Offset(r.b) = Offset(buffer) - k

(***************************************************************************)
(* C6.  delete_n_chars_front_from_cursor(n) from a valid cursor, when it   *)
(* returns Ok, has removed exactly the min(n, units after the cursor)      *)
(* units after the cursor and left the cursor where it was.                *)
(***************************************************************************)
C6_DeleteFrontRemovesSpan ==
    \A n \in 0..MaxN :
        LET r == delete_n_chars_front_from_cursor(buffer, n, build)
            k == Min(n, Len(Flat(buffer.data)) - Offset(buffer))
        IN  (ValidState /\ r.res = "ok") =>
                /\ Flat(r.b.data) = Without(Flat(buffer.data), Offset(buffer), Offset(buffer) + k)
                /\ Offset(r.b) = Offset(buffer)

(***************************************************************************)
(* C7.  move_left_n(n) and move_right_n(n) from a valid cursor return the  *)
(* number of units the cursor went over, which is min(n, units before the  *)
(* cursor) and min(n, units after the cursor).                             *)
(***************************************************************************)
C7_MovedIsDistance ==
    \A n \in 0..MaxN :
        LET l == move_left_n(buffer, n, build)
            r == move_right_n(buffer, n, build)
        IN  /\ (ValidState /\ l.res = "ok") =>
                   /\ l.ret = Min(n, Offset(buffer))
                   /\ Offset(l.b) = Offset(buffer) - l.ret
            /\ (ValidState /\ r.res = "ok") =>
                   /\ r.ret = Min(n, Len(Flat(buffer.data)) - Offset(buffer))
                   /\ Offset(r.b) = Offset(buffer) + r.ret

(***************************************************************************)
(* C8.  add_str_at_cursor(s) followed by                                   *)
(* delete_n_chars_back_from_cursor(len(s)), both returning Ok, on a buffer *)
(* with a valid cursor: the lines and the cursor are as before the insert. *)
(* As claimed, for any buffer; as amended, for a buffer with at least one  *)
(* line.                                                                   *)
(***************************************************************************)
InsertUndone ==
    before.kind = "undone_add_str" /\ op.res = "ok" /\ CursorInBounds(before.b)

SplitUndone ==
    before.kind = "undone_add_line" /\ op.res = "ok" /\ CursorInBounds(before.b)

RECURSIVE EachLineTerminated(_)
EachLineTerminated(data) ==
    IF data = <<>> THEN <<>>
    ELSE EachLineTerminated(SubSeq(data, 1, Len(data) - 1)) \o data[Len(data)] \o <<"LF">>

EndsInCR(line) == Len(line) > 0 /\ line[Len(line)] = "CR"

NoLineEndsInCR(data) == \A i \in 1..Len(data) : ~EndsInCR(data[i])

SaveWritesLines ==
    (op.name = "save_to_file" /\ op.res = "ok") =>
        file = EachLineTerminated(buffer.data) /\ buffer = before.b

set_top_left_corner(b, pos) == [b EXCEPT !.top_left_corner = pos]

content_lines_len(b) == Len(b.data)

get_viewport_size(b) == b.viewport_size

get_viewport_pos(b) == PosAdd(PosSub(b.cursor, b.scroll), b.top_left_corner)

\* The rows of get_viewport from line y on: one entry for every y below
\* scroll.y + viewport_size.y at which there is a line.
RECURSIVE get_viewport_from(_, _)
get_viewport_from(b, y) ==
    IF y >= b.scroll.y + b.viewport_size.y THEN <<>>
    ELSE (IF y < Len(b.data)
          THEN <<[pos |-> PosSub(PosAdd(b.top_left_corner, Pos(0, y)), b.scroll),
                  line |-> b.data[y + 1]]>>
          ELSE <<>>) \o get_viewport_from(b, y + 1)

get_viewport_at_origin(b) ==
    get_viewport_from([b EXCEPT !.top_left_corner = Pos(0, 0)], b.scroll.y)

get_viewport(b) == get_viewport_from(b, b.scroll.y)

RECURSIVE move_up_n(_, _, _)
move_up_n(b, n, bld) ==
    IF n = 0 THEN Ok(b)
    ELSE LET r == move_up(b, bld)
         IN  IF r.res = "ok" THEN move_up_n(r.b, n - 1, bld) ELSE r

RECURSIVE move_down_n(_, _, _)
move_down_n(b, n, bld) ==
    IF n = 0 THEN Ok(b)
    ELSE LET r == move_down(b, bld)
         IN  IF r.res = "ok" THEN move_down_n(r.b, n - 1, bld) ELSE r

move_left(b, bld) == move_left_n(b, 1, bld)

move_right(b, bld) == move_right_n(b, 1, bld)

(***************************************************************************)
(* Three operations of Buffer that editor.rs calls and buffer.rs does not  *)
(* define, as the specification describes them: clear_content empties the  *)
(* lines and resets the cursor to (0,0); the full content of the command   *)
(* buffer is its lines; the prompt is seeded with the cursor at the end of *)
(* its line, and every cursor change passes through move_to.               *)
(***************************************************************************)
empty_content(b) == [b EXCEPT !.data = <<>>, !.cursor = Pos(0, 0)]

get_contents(b) == Flat(b.data)

move_line_end(b, bld) ==
    move_cursor(b, Pos(LineLen(b.data, b.cursor.y), b.cursor.y), bld)

(***************************************************************************)
(* editor.rs                                                               *)
(***************************************************************************)
\* Option<PathBuf>: None is <<>>, Some(path) is <<path>>.
None == <<>>
Some(path) == <<path>>

update_layout_edit_full_height(e, window_size) ==
    LET command_buffer_viewport_size ==
            CASE e.state = "EditMode" -> Pos(window_size.x, 0)
              [] e.state = "CommandMode" ->
                     Pos(window_size.x,
                         Min(SatSub(window_size.y, 1), content_lines_len(e.command_buffer)))
              [] OTHER -> get_viewport_size(e.command_buffer)
        command_buffer ==
            set_top_left_corner(
                set_viewport_size(e.command_buffer, command_buffer_viewport_size),
                Pos(0, SatSub(window_size.y, 1 + command_buffer_viewport_size.y)))
        edit_buffer_viewport_size ==
            IF e.state \in {"EditMode", "CommandMode"}
            THEN Pos(window_size.x, SatSub(window_size.y, 1))
            ELSE get_viewport_size(e.edit_buffer)
    IN  [e EXCEPT !.window_size = window_size,
                  !.command_buffer = command_buffer,
                  !.edit_buffer = set_viewport_size(e.edit_buffer, edit_buffer_viewport_size),
                  !.need_full_clear = TRUE]

update_layout(e, window_size) ==
    LET command_buffer_viewport_size ==
            CASE e.state = "EditMode" -> Pos(window_size.x, 0)
              [] e.state = "CommandMode" ->
                     Pos(window_size.x,
                         Min(SatSub(window_size.y, 1), content_lines_len(e.command_buffer)))
              [] OTHER -> get_viewport_size(e.command_buffer)
        command_buffer ==
            set_top_left_corner(
                set_viewport_size(e.command_buffer, command_buffer_viewport_size),
                Pos(0, SatSub(window_size.y, 1 + command_buffer_viewport_size.y)))
        edit_buffer_viewport_size ==
            CASE e.state = "EditMode" -> Pos(window_size.x, SatSub(window_size.y, 1))
              [] e.state = "CommandMode" ->
                     Pos(window_size.x,
                         SatSub(window_size.y, command_buffer_viewport_size.y + 1))
              [] OTHER -> get_viewport_size(e.edit_buffer)
    IN  [e EXCEPT !.window_size = window_size,
                  !.command_buffer = command_buffer,
                  !.edit_buffer = set_viewport_size(e.edit_buffer, edit_buffer_viewport_size),
                  !.need_full_clear = TRUE]

set_state(e, state) == update_layout([e EXCEPT !.state = state], e.window_size)

is_done(e) == e.state = "Close"

(***************************************************************************)
(* Outcomes of an Editor operation: the editor it leaves, how it ended,    *)
(* and the write it made (<<>> or <<[path, bytes]>>).                      *)
(***************************************************************************)
Done(e) == [e |-> e, res |-> "ok", wrote |-> <<>>]

\* The outcome of an operation on the command buffer, as the outcome of the
\* event: `?` hands an Err on, a panic unwinds.
OnCommandBuffer(e, r) ==
    [e |-> [e EXCEPT !.command_buffer = r.b], res |-> r.res, wrote |-> <<>>]

OnEditBuffer(e, r) ==
    [e |-> [e EXCEPT !.edit_buffer = r.b], res |-> r.res, wrote |-> <<>>]

\* self.edit_buffer.save_to_file(path)?, where fs::write succeeds (io = "ok")
\* or fails.
SaveEditBuffer(e, path, io) ==
    IF io = "ok"
    THEN [e |-> e, res |-> "ok", wrote |-> <<[path |-> path, bytes |-> save_to_file(e.edit_buffer)]>>]
    ELSE [e |-> e, res |-> "err", wrote |-> <<>>]

\* EditorCommand
SetFilename(name) == [verb |-> "SetFilename", arg |-> name]
SaveAs(name) == [verb |-> "SaveAs", arg |-> name]

execute_command_save_keeps_filename(e, command, io) ==
    IF command.verb = "SetFilename"
    THEN Done([e EXCEPT !.filename = IF command.arg = <<>> THEN None ELSE Some(command.arg)])
    ELSE SaveEditBuffer(e, command.arg, io)

execute_command(e, command, io) ==
    IF command.verb = "SetFilename"
    THEN Done([e EXCEPT !.filename = IF command.arg = <<>> THEN None ELSE Some(command.arg)])
    ELSE SaveEditBuffer([e EXCEPT !.filename = Some(command.arg)], command.arg, io)

(***************************************************************************)
(* The command grammar.  comma::parse_command cuts the line into tokens:   *)
(* white space separates them, a pair of quotes (DQ is ", SQ is ') holds a *)
(* piece of a token in which white space counts as text, and a backslash   *)
(* (BS) takes the character after it (n, r and t as line feed, carriage    *)
(* return and tab).  It returns None for a quote that is not closed and    *)
(* for a backslash with nothing after it.                                  *)
(***************************************************************************)
IsWhitespace(byte) == byte \in {" ", "LF", "CR", "TAB"}

\* parse_escape: the character an escape stands for, and where to go on.
parse_escape(s, i) ==
    IF i > Len(s) THEN [ok |-> FALSE]
    ELSE [ok |-> TRUE,
          ch |-> CASE s[i] = "n" -> "LF" [] s[i] = "r" -> "CR" [] s[i] = "t" -> "TAB"
                   [] OTHER -> s[i],
          next |-> i + 1]

\* parse_string: the text up to the closing delim, and where to go on.
RECURSIVE parse_string(_, _, _, _)
parse_string(s, i, delim, output) ==
    IF i > Len(s) THEN [ok |-> FALSE]
    ELSE IF s[i] = delim THEN [ok |-> TRUE, text |-> output, next |-> i + 1]
    ELSE IF s[i] = "BS"
    THEN LET esc == parse_escape(s, i + 1)
         IN  IF esc.ok THEN parse_string(s, esc.next, delim, Append(output, esc.ch))
             ELSE [ok |-> FALSE]
    ELSE parse_string(s, i + 1, delim, Append(output, s[i]))

\* output.last_mut().push_str(text)
PushLast(output, text) == [output EXCEPT ![Len(output)] = @ \o text]

RECURSIVE parse_command_from(_, _, _, _)
parse_command_from(s, i, output, next_push) ==
    IF i > Len(s) THEN Some(output)
    ELSE IF IsWhitespace(s[i]) THEN parse_command_from(s, i + 1, output, TRUE)
    ELSE LET started == IF next_push THEN Append(output, <<>>) ELSE output
         IN  IF s[i] = "BS"
             THEN LET esc == parse_escape(s, i + 1)
                  IN  IF esc.ok
                      THEN parse_command_from(s, esc.next, PushLast(started, <<esc.ch>>), FALSE)
                      ELSE None
             ELSE IF s[i] \in {"DQ", "SQ"}
             THEN LET str == parse_string(s, i + 1, s[i], <<>>)
                  IN  IF str.ok
                      THEN parse_command_from(s, str.next, PushLast(started, str.text), FALSE)
                      ELSE None
             ELSE parse_command_from(s, i + 1, PushLast(started, <<s[i]>>), FALSE)

parse_command(s) == parse_command_from(s, 1, <<>>, TRUE)

set_filename == <<"s", "e", "t", "_", "f", "i", "l", "e", "n", "a", "m", "e">>
save_as == <<"s", "a", "v", "e", "_", "a", "s">>

\* EditorCommand::from_str: Ok(command), or Err with its context.
from_str(s) ==
    LET parsed == parse_command(s)
        cmd == parsed[1]
    IN  IF parsed = None THEN [res |-> "err", why |-> "Unknown escape seq"]
        ELSE IF cmd = <<>> THEN [res |-> "err", why |-> "No command"]
        ELSE IF cmd[1] = set_filename
        THEN [res |-> "ok", command |-> SetFilename(IF Len(cmd) >= 2 THEN cmd[2] ELSE <<>>)]
        ELSE IF cmd[1] = save_as
        THEN IF Len(cmd) >= 2
             THEN [res |-> "ok", command |-> SaveAs(cmd[2])]
             ELSE [res |-> "err", why |-> "No filename"]
        ELSE [res |-> "err", why |-> "Unknown command"]

RunCommandLine_error_closes(e, io) ==
    LET parsed == from_str(get_contents(e.command_buffer))
        r == execute_command(e, parsed.command, io)
    IN  IF parsed.res = "err" THEN [e |-> set_state(e, "Close"), res |-> "err", wrote |-> <<>>]
        ELSE IF r.res # "ok" THEN r
        ELSE [r EXCEPT !.e = set_state([r.e EXCEPT !.command_buffer =
                                                  empty_content(r.e.command_buffer)],
                                       "EditMode")]

\* The unbound Enter of process_event_command_mode.
RunCommandLine(e, io) ==
    LET parsed == from_str(get_contents(e.command_buffer))
        r == execute_command(e, parsed.command, io)
    IN  IF parsed.res = "err" THEN [e |-> e, res |-> "err", wrote |-> <<>>]
        ELSE IF r.res # "ok" THEN r
        ELSE [r EXCEPT !.e = set_state([r.e EXCEPT !.command_buffer =
                                                  empty_content(r.e.command_buffer)],
                                       "EditMode")]

\* A key press that the table of the mode binds to `action`.
BoundInCommandMode(e, ev, bld, io) ==
    LET b == e.command_buffer
        page == SatSub(get_viewport_size(b).y, 1)
    IN  CASE ev.a = "Quit" -> Done(set_state(e, "Close"))
          [] ev.a = "MoveUp" -> OnCommandBuffer(e, move_up(b, bld))
          [] ev.a = "MoveDown" -> OnCommandBuffer(e, move_down(b, bld))
          [] ev.a = "MoveRight" -> OnCommandBuffer(e, move_right(b, bld))
          [] ev.a = "MoveLeft" -> OnCommandBuffer(e, move_left(b, bld))
          [] ev.a = "PageUp" -> OnCommandBuffer(e, move_up_n(b, page, bld))
          [] ev.a = "PageDown" -> OnCommandBuffer(e, move_down_n(b, page, bld))
          [] ev.a = "DeleteCharBack" ->
                 OnCommandBuffer(e, delete_n_chars_back_from_cursor(b, 1, bld))
          [] ev.a = "DeleteCharFront" ->
                 OnCommandBuffer(e, delete_n_chars_front_from_cursor(b, 1, bld))
          [] ev.a = "GoIntoEditMode" -> Done(set_state(e, "EditMode"))
          [] ev.a = "DeleteAll" -> Done([e EXCEPT !.command_buffer = empty_content(b)])
          [] ev.a = "Command" -> execute_command(e, ev.command, io)
          [] ev.a = "GoIntoCommandMode" -> Done(e)
          [] ev.a = "SaveDocument" -> Done(e)

process_event_command_mode_types_into_edit(e, ev, bld, io) ==
    CASE ev.type = "Bound" -> BoundInCommandMode(e, ev, bld, io)
      [] ev.type = "Enter" -> RunCommandLine(e, io)
      [] ev.type = "Text" ->
             OnEditBuffer(e, add_str_at_cursor(e.edit_buffer, ev.text, bld))
      [] OTHER -> Done(e)

process_event_command_mode(e, ev, bld, io) ==
    CASE ev.type = "Bound" -> BoundInCommandMode(e, ev, bld, io)
      [] ev.type = "Enter" -> RunCommandLine(e, io)
      [] ev.type = "Text" ->
             OnCommandBuffer(e, add_str_at_cursor(e.command_buffer, ev.text, bld))
      [] OTHER -> Done(e)

\* SaveDocument in edit mode with no filename: the command buffer becomes the
\* prompt "save_as " with the cursor at its end.
SeedSavePrompt(e, bld) ==
    LET r == move_line_end(load_from_str(save_as \o <<" ">>), bld)
    IN  IF r.res = "ok"
        THEN Done(set_state([e EXCEPT !.command_buffer = r.b], "CommandMode"))
        ELSE OnCommandBuffer(e, r)

BoundInEditMode(e, ev, bld, io) ==
    LET b == e.edit_buffer
        page == SatSub(get_viewport_size(b).y, 1)
    IN  CASE ev.a = "Quit" -> Done(set_state(e, "Close"))
          [] ev.a = "MoveUp" -> OnEditBuffer(e, move_up(b, bld))
          [] ev.a = "MoveDown" -> OnEditBuffer(e, move_down(b, bld))
          [] ev.a = "MoveRight" -> OnEditBuffer(e, move_right(b, bld))
          [] ev.a = "MoveLeft" -> OnEditBuffer(e, move_left(b, bld))
          [] ev.a = "PageUp" -> OnEditBuffer(e, move_up_n(b, page, bld))
          [] ev.a = "PageDown" -> OnEditBuffer(e, move_down_n(b, page, bld))
          [] ev.a = "SaveDocument" ->
                 IF e.filename # None
                 THEN SaveEditBuffer(e, e.filename[1], io)
                 ELSE SeedSavePrompt(e, bld)
          [] ev.a = "DeleteCharBack" ->
                 OnEditBuffer(e, delete_n_chars_back_from_cursor(b, 1, bld))
          [] ev.a = "DeleteCharFront" ->
                 OnEditBuffer(e, delete_n_chars_front_from_cursor(b, 1, bld))
          [] ev.a = "GoIntoCommandMode" -> Done(set_state(e, "CommandMode"))
          [] ev.a = "DeleteAll" -> Done([e EXCEPT !.edit_buffer = empty_content(b)])
          [] ev.a = "Command" -> execute_command(e, ev.command, io)
          [] ev.a = "GoIntoEditMode" -> Done(e)

process_event_edit_mode(e, ev, bld, io) ==
    CASE ev.type = "Bound" -> BoundInEditMode(e, ev, bld, io)
      [] ev.type = "Enter" -> OnEditBuffer(e, add_line_at_cursor(e.edit_buffer, bld))
      [] ev.type = "Text" -> OnEditBuffer(e, add_str_at_cursor(e.edit_buffer, ev.text, bld))
      [] ev.type = "ScrollDown" -> OnEditBuffer(e, move_down(e.edit_buffer, bld))
      [] ev.type = "ScrollUp" -> OnEditBuffer(e, move_up(e.edit_buffer, bld))
      [] ev.type = "DownLeft" ->
             Done([e EXCEPT !.edit_buffer = move_cursor_relative(e.edit_buffer, ev.pos)])
      [] OTHER -> Done(e)

process_event_init_on_resize(e, ev, bld, io) ==
    IF ev.type = "Resize"
    THEN Done(update_layout(IF e.state = "Init" THEN set_state(e, "EditMode") ELSE e,
                            ev.size))
    ELSE CASE e.state = "EditMode" -> process_event_edit_mode(e, ev, bld, io)
           [] e.state = "CommandMode" -> process_event_command_mode(e, ev, bld, io)
           [] OTHER -> Done(e)

process_event(e, ev, bld, io) ==
    IF ev.type = "Resize" THEN Done(update_layout(e, ev.size))
    ELSE CASE e.state = "EditMode" -> process_event_edit_mode(e, ev, bld, io)
           [] e.state = "CommandMode" -> process_event_command_mode(e, ev, bld, io)
           [] OTHER -> Done(e)

init_into_command_mode(e) == set_state(e, "CommandMode")

\* Editor::init, when the queue accepts its commands.
init(e) == set_state(e, "EditMode")

\* window_size.y as u16 - 1, for the status line, underflows for a window of
\* height 0: a panic with overflow checks.
\* The queue refuses a command of init (io = "err_init") or a later one
\* (io = "err"), or accepts them all.
display(e, bld, io) ==
    LET e1 == IF e.state = "Init" /\ io # "err_init" THEN init(e) ELSE e
    IN  IF io # "ok" THEN [e |-> e1, res |-> "err", wrote |-> <<>>]
        ELSE IF e1.window_size.y = 0 /\ bld = "debug"
        THEN [e |-> e1, res |-> "panic", wrote |-> <<>>]
        ELSE Done(e1)

(***************************************************************************)
(* The Editor as a state machine: display, and one action per kind of      *)
(* event handed to process_event.                                          *)
(***************************************************************************)
\* The terminal sizes a Resize event brings; Editor::new starts from (0, 0).
WindowSizes == {Pos(MaxView, h) : h \in {1, MaxWin}}

\* The text of a key that types.
KeyTexts == {<<"a">>}

\* The screen cells of a press of the left button.
Clicks == {Pos(0, 0), Pos(MaxCoord, MaxCoord)}

\* The commands a keybinding table binds a key to.
BoundCommands == {SetFilename(<<>>), SetFilename(<<"a">>), SaveAs(<<"a">>)}

Actions ==
    {"Quit", "MoveUp", "MoveDown", "MoveRight", "MoveLeft", "PageUp", "PageDown",
     "SaveDocument", "DeleteCharBack", "DeleteCharFront", "DeleteAll",
     "GoIntoCommandMode", "GoIntoEditMode"}

\* The command line that is explored: at most MaxCmd bytes, or the prompt
\* "save_as " and at most MaxCmd bytes after it.
CommandLineInBounds(line) ==
    \/ Len(line) <= MaxCmd
    \/ /\ Len(save_as) + 1 <= Len(line)
       /\ Len(line) <= Len(save_as) + 1 + MaxCmd
       /\ SubSeq(line, 1, Len(save_as) + 1) = save_as \o <<" ">>

EditorInBounds(e) ==
    /\ Len(save_to_file(e.edit_buffer)) <= MaxEdit
    /\ NearDocument(e.edit_buffer)
    /\ \A i \in 1..Len(e.command_buffer.data) : CommandLineInBounds(e.command_buffer.data[i])
    /\ LineLen(e.command_buffer.data, e.command_buffer.cursor.y)
           <= e.command_buffer.cursor.x + MaxCmd

\* fs::write succeeds or fails.
IoResults == {"ok", "err"}

\* The outcomes of the write an event may make: only SaveDocument, a command
\* and Enter reach save_to_file.
EventIo(ev) ==
    IF ev.type = "Enter" \/ (ev.type = "Bound" /\ ev.a \in {"SaveDocument", "Command"})
    THEN IoResults
    ELSE {"ok"}

EditorCall(name, out) ==
    \E o \in {out} :
        /\ EditorInBounds(o.e)
        /\ editor' = o.e
        /\ op' = [name |-> name, res |-> o.res]
        /\ UNCHANGED <<buffer, build, before, file, cmdline>>

Display ==
    /\ Running
    /\ \E io \in {"ok", "err_init", "err"} :
           EditorCall("display", display(editor, build, io))

ResizeEvent ==
    /\ Running
    /\ \E size \in WindowSizes :
           EditorCall("Resize", process_event(editor, [type |-> "Resize", size |-> size],
                                              build, "ok"))

BoundKey ==
    /\ Running
    /\ \E a \in Actions, io \in IoResults :
           /\ io \in EventIo([type |-> "Bound", a |-> a])
           /\ EditorCall("Key", process_event(editor, [type |-> "Bound", a |-> a], build, io))

BoundCommandKey ==
    /\ Running
    /\ \E command \in BoundCommands, io \in IoResults :
           EditorCall("Command",
                      process_event(editor, [type |-> "Bound", a |-> "Command",
                                             command |-> command], build, io))

EnterKey ==
    /\ Running
    /\ \E io \in IoResults :
           EditorCall("Enter", process_event(editor, [type |-> "Enter"], build, io))

TextKey ==
    /\ Running
    /\ \E text \in KeyTexts :
           EditorCall("Text", process_event(editor, [type |-> "Text", text |-> text],
                                            build, "ok"))

MouseEvent ==
    /\ Running
    /\ \/ \E type \in {"ScrollDown", "ScrollUp", "OtherMouse"} :
              EditorCall("Mouse", process_event(editor, [type |-> type], build, "ok"))
       \/ \E pos \in Clicks :
              EditorCall("Mouse", process_event(editor, [type |-> "DownLeft", pos |-> pos],
                                                  build, "ok"))

\* A key release or repeat, a focus change, a paste.
OtherEvent ==
    /\ Running
    /\ EditorCall("Other", process_event(editor, [type |-> "Other"], build, "ok"))

NextEditor ==
    \/ Display
    \/ ResizeEvent
    \/ BoundKey
    \/ BoundCommandKey
    \/ EnterKey
    \/ TextKey
    \/ MouseEvent
    \/ OtherEvent

\* Editor::new, with its two buffers.
InitEditor ==
    /\ buffer = NewBuffer
    /\ build \in Builds
    /\ op = NoOp
    /\ before = NoBefore
    /\ file = <<>>
    /\ editor = NewEditor
    /\ cmdline = <<>>

SpecEditor == InitEditor /\ [][NextEditor]_vars

\* The events of the actions above, for what a handler makes of each of them
\* in a reachable state.
KeyEvents ==
    {[type |-> "Bound", a |-> a] : a \in Actions}
        \cup {[type |-> "Bound", a |-> "Command", command |-> c] : c \in BoundCommands}
        \cup {[type |-> "Enter"]}
        \cup {[type |-> "Text", text |-> t] : t \in KeyTexts}

MouseEvents ==
    {[type |-> t] : t \in {"ScrollDown", "ScrollUp", "OtherMouse"}}
        \cup {[type |-> "DownLeft", pos |-> p] : p \in Clicks}

ResizeEvents == {[type |-> "Resize", size |-> size] : size \in WindowSizes}

(***************************************************************************)
(* C11.  Every change of the Editor's state is Init to EditMode, EditMode  *)
(* to CommandMode, CommandMode to EditMode, or a change to Close; no step  *)
(* enters Init and no step leaves Close.                                   *)
(***************************************************************************)
ModeChanges ==
    {<<"Init", "EditMode">>, <<"EditMode", "CommandMode">>, <<"CommandMode", "EditMode">>}

C11_ModeTransitions ==
    [][/\ editor'.state # editor.state =>
             \/ <<editor.state, editor'.state>> \in ModeChanges
             \/ editor'.state = "Close"
       /\ editor'.state = "Init" => editor.state = "Init"
       /\ editor.state = "Close" => editor'.state = "Close"]_vars

\* The Editor is closed and has since been handed a key.
C11_Witness == editor.state = "Close" /\ op.name = "Enter"

C13_ClosedIsFrozen ==
    [][editor.state = "Close" /\ op'.name # "display" =>
           /\ editor'.state = editor.state
           /\ editor'.edit_buffer = editor.edit_buffer
           /\ editor'.command_buffer = editor.command_buffer
           /\ editor'.window_size = editor.window_size
           /\ editor'.filename = editor.filename]_vars

(***************************************************************************)
(* C14.  After every layout computation in EditMode or CommandMode with a  *)
(* window of height h >= 1 and width w: edit height + command height is    *)
(* h - 1, the command height is 0 in EditMode and min(h - 1, number of     *)
(* command lines) in CommandMode, both viewport widths are w, and the      *)
(* command buffer's origin row is the edit buffer's origin row plus the    *)
(* edit viewport height.  The layout computations are: update_layout for a *)
(* resize, set_state for a change of mode, and the set_state inside an     *)
(* event that changes the mode.                                            *)
(***************************************************************************)
LayoutHolds(e) ==
    LET h == e.window_size.y
        w == e.window_size.x
        edit == get_viewport_size(e.edit_buffer)
        command == get_viewport_size(e.command_buffer)
    IN  /\ edit.y + command.y = h - 1
        /\ command.y = IF e.state = "EditMode" THEN 0
                       ELSE Min(h - 1, content_lines_len(e.command_buffer))
        /\ edit.x = w
        /\ command.x = w
        /\ e.command_buffer.top_left_corner.y = e.edit_buffer.top_left_corner.y + edit.y

Visible(e) == e.state \in {"EditMode", "CommandMode"} /\ e.window_size.y >= 1

C14_Layout ==
    /\ \A size \in WindowSizes :
           Visible(update_layout(editor, size)) => LayoutHolds(update_layout(editor, size))
    /\ \A state \in {"EditMode", "CommandMode"} :
           Visible(set_state(editor, state)) => LayoutHolds(set_state(editor, state))
    /\ \A ev \in KeyEvents :
           \A io \in EventIo(ev) :
               LET o == process_event(editor, ev, build, io)
               IN  o.res = "ok" /\ o.e.state # editor.state /\ Visible(o.e) => LayoutHolds(o.e)
    /\ op = [name |-> "Resize", res |-> "ok"] /\ Visible(editor) => LayoutHolds(editor)

\* A resize in CommandMode has left a row to each buffer.
C14_Witness ==
    /\ op = [name |-> "Resize", res |-> "ok"]
    /\ editor.state = "CommandMode"
    /\ editor.window_size = Pos(MaxView, MaxWin)
    /\ get_viewport_size(editor.command_buffer).y = 1
    /\ get_viewport_size(editor.edit_buffer).y = MaxWin - 2

(***************************************************************************)
(* C15.  In every reachable state in EditMode or CommandMode, no row that  *)
(* get_viewport yields for either buffer is on the last row of the window  *)
(* (the status line), and no row is yielded for both buffers.              *)
(***************************************************************************)
Rows(b) == {get_viewport(b)[i].pos.y : i \in 1..Len(get_viewport(b))}

C15_RowsApart ==
    editor.state \in {"EditMode", "CommandMode"} =>
        /\ (editor.window_size.y - 1) \notin Rows(editor.edit_buffer)
        /\ (editor.window_size.y - 1) \notin Rows(editor.command_buffer)
        /\ Rows(editor.edit_buffer) \cap Rows(editor.command_buffer) = {}

\* Both buffers have a row on the screen.
C15_Witness ==
    /\ editor.state = "CommandMode"
    /\ Rows(editor.edit_buffer) # {}
    /\ Rows(editor.command_buffer) # {}

(***************************************************************************)
(* C16.  In CommandMode, Enter on a command buffer that holds a valid      *)
(* command succeeds when the write (if any) does, and then: the state is   *)
(* EditMode, the command buffer is empty, the edit buffer's text is as it  *)
(* was; for save_as NAME the filename is NAME and the edit buffer's lines, *)
(* each with its terminator, were written to NAME; for set_filename NAME   *)
(* the filename is NAME, or none for an empty NAME, and nothing is written.*)
(***************************************************************************)
C16_EnterRunsCommand ==
    LET parsed == from_str(get_contents(editor.command_buffer))
    IN  editor.state = "CommandMode" /\ parsed.res = "ok" =>
            \A io \in IoResults :
                LET o == process_event(editor, [type |-> "Enter"], build, io)
                    command == parsed.command
                IN  /\ io = "ok" => o.res = "ok"
                    /\ o.res = "ok" =>
                          /\ o.e.state = "EditMode"
                          /\ o.e.command_buffer.data = <<>>
                          /\ o.e.edit_buffer.data = editor.edit_buffer.data
                          /\ o.e.edit_buffer.cursor = editor.edit_buffer.cursor
                          /\ command.verb = "SaveAs" =>
                                /\ o.e.filename = Some(command.arg)
                                /\ o.wrote = <<[path |-> command.arg,
                                                bytes |-> save_to_file(editor.edit_buffer)]>>
                          /\ command.verb = "SetFilename" =>
                                /\ o.e.filename =
                                       IF command.arg = <<>> THEN None ELSE Some(command.arg)
                                /\ o.wrote = <<>>

\* Enter has run the command line "save_as a": an Enter in EditMode would
\* have left a line in the edit buffer.
C16_Witness ==
    /\ op = [name |-> "Enter", res |-> "ok"]
    /\ editor.state = "EditMode"
    /\ editor.edit_buffer.data = <<>>
    /\ editor.filename = Some(<<"a">>)
    /\ editor.command_buffer.data = <<>>

(***************************************************************************)
(* C17.  In CommandMode, Enter on a command line that the grammar refuses  *)
(* (no command, an unknown verb, save_as without a name) returns an error  *)
(* and leaves the Editor as it was: not in Close, the edit buffer and the  *)
(* filename unchanged, nothing written; and the Editor still handles the   *)
(* key that follows.                                                       *)
(***************************************************************************)
C17_GrammarFailureRecoverable ==
    LET parsed == from_str(get_contents(editor.command_buffer))
    IN  editor.state = "CommandMode" /\ parsed.res = "err" =>
            \A io \in IoResults :
                LET o == process_event(editor, [type |-> "Enter"], build, io)
                IN  /\ o.res = "err"
                    /\ o.e.state = "CommandMode"
                    /\ o.e.edit_buffer = editor.edit_buffer
                    /\ o.e.filename = editor.filename
                    /\ o.wrote = <<>>
                    /\ process_event(o.e, [type |-> "Bound", a |-> "Quit"], build, io).e.state
                           = "Close"

\* Enter has refused the command line "a".
C17_Witness ==
    /\ op = [name |-> "Enter", res |-> "err"]
    /\ editor.state = "CommandMode"
    /\ editor.command_buffer.data = <<<<"a">>>>

(***************************************************************************)
(* C18.  Whenever SaveDocument is applied, in EditMode or in CommandMode:  *)
(* with no filename the command buffer becomes the one line "save_as "     *)
(* with the cursor at its end and the state becomes CommandMode; with a    *)
(* filename the edit buffer is written to it and the state is unchanged.   *)
(***************************************************************************)
C18_SaveDocumentActs ==
    editor.state \in {"EditMode", "CommandMode"} =>
        \A io \in IoResults :
            LET o == process_event(editor, [type |-> "Bound", a |-> "SaveDocument"], build, io)
            IN  /\ editor.filename = None /\ o.res = "ok" =>
                      /\ o.e.command_buffer.data = <<save_as \o <<" ">>>>
                      /\ o.e.command_buffer.cursor = Pos(Len(save_as) + 1, 0)
                      /\ o.e.state = "CommandMode"
                /\ editor.filename # None /\ io = "ok" =>
                      /\ o.res = "ok"
                      /\ o.wrote = <<[path |-> editor.filename[1],
                                      bytes |-> save_to_file(editor.edit_buffer)]>>
                      /\ o.e.state = editor.state

(***************************************************************************)
(* C19.  After a command has run in CommandMode, through Enter on the      *)
(* command line or through a key bound to Command(command), the state is   *)
(* EditMode.                                                               *)
(***************************************************************************)
C19_CommandReturnsToEditMode ==
    [][editor.state = "CommandMode" /\ op'.name \in {"Enter", "Command"} /\ op'.res = "ok" =>
           editor'.state = "EditMode"]_vars

(***************************************************************************)
(* C20.  Input reaches only the buffer of the mode.  In CommandMode no key *)
(* or mouse event changes the edit buffer's lines, cursor or scroll, and a *)
(* mouse event changes nothing at all.  In EditMode every key or mouse     *)
(* event, except SaveDocument while no filename is set, leaves the command *)
(* buffer's lines and cursor unchanged.  This holds however the event      *)
(* ends.                                                                   *)
(***************************************************************************)
SaveDocumentKey == [type |-> "Bound", a |-> "SaveDocument"]

C20_ActiveBufferOnly ==
    \A ev \in KeyEvents \cup MouseEvents :
      \A io \in EventIo(ev) :
        LET o == process_event(editor, ev, build, io)
        IN  /\ editor.state = "CommandMode" =>
                  /\ o.e.edit_buffer.data = editor.edit_buffer.data
                  /\ o.e.edit_buffer.cursor = editor.edit_buffer.cursor
                  /\ o.e.edit_buffer.scroll = editor.edit_buffer.scroll
                  /\ ev \in MouseEvents => o = Done(editor)
            /\ editor.state = "EditMode" /\ ~(ev = SaveDocumentKey /\ editor.filename = None) =>
                  /\ o.e.command_buffer.data = editor.command_buffer.data
                  /\ o.e.command_buffer.cursor = editor.command_buffer.cursor

\* A key has typed into the command buffer while the edit buffer held a line.
C20_Witness ==
    /\ op = [name |-> "Text", res |-> "ok"]
    /\ editor.state = "CommandMode"
    /\ editor.command_buffer.data = <<<<"a">>>>
    /\ editor.edit_buffer.data = <<<<>>>>

(***************************************************************************)
(* EditorCommand::from_str on its own.  A command line is a verb or none,   *)
(* followed by at most MaxPieces pieces: a letter (a name, or a verb that  *)
(* is not a command), a space, a double quote and a backslash.             *)
(***************************************************************************)
MaxPieces == 4

Verbs == {<<>>, set_filename, save_as}

Pieces == {<<"a">>, <<" ">>, <<"DQ">>, <<"BS">>}

RECURSIVE LinesOf(_)
LinesOf(n) == IF n = 0 THEN {<<>>} ELSE {l \o p : l \in LinesOf(n - 1), p \in Pieces}

CommandLines == {verb \o l : verb \in Verbs, l \in UNION {LinesOf(n) : n \in 0..MaxPieces}}

InitGrammar ==
    /\ buffer = NewBuffer
    /\ build \in Builds
    /\ op = NoOp
    /\ before = NoBefore
    /\ file = <<>>
    /\ editor = <<>>
    /\ cmdline \in {[s |-> l, parsed |-> None] : l \in CommandLines}

\* s.parse::<EditorCommand>()
FromStr ==
    /\ cmdline.parsed = None
    /\ cmdline' = [cmdline EXCEPT !.parsed = Some(from_str(cmdline.s))]
    /\ op' = [name |-> "from_str", res |-> from_str(cmdline.s).res]
    /\ UNCHANGED <<buffer, build, before, file, editor>>

NextGrammar == FromStr

SpecGrammar == InitGrammar /\ [][NextGrammar]_vars

\* The words of a line that white space alone separates.
RECURSIVE WordsFrom(_, _, _)
WordsFrom(s, i, word) ==
    IF i > Len(s) THEN (IF word = <<>> THEN <<>> ELSE <<word>>)
    ELSE IF s[i] = " "
    THEN (IF word = <<>> THEN <<>> ELSE <<word>>) \o WordsFrom(s, i + 1, <<>>)
    ELSE WordsFrom(s, i + 1, Append(word, s[i]))

Words(s) == WordsFrom(s, 1, <<>>)

Plain(s) == \A i \in 1..Len(s) : s[i] \notin {"DQ", "SQ", "BS"}

(***************************************************************************)
(* C21.  The command grammar is total: every command line has one of five  *)
(* outcomes.  An empty line fails with EmptyCommand ("No command");        *)
(* set_filename gives SetFilename of the name, or of the empty string      *)
(* without one; save_as with a name gives SaveAs of that name and without  *)
(* one fails with MissingArgument ("No filename"), never SaveAs of an      *)
(* empty name; any other verb fails with UnknownCommand ("Unknown          *)
(* command").  For a line without quote or backslash the verb and the name *)
(* are its first two words.                                                *)
(***************************************************************************)
C21_GrammarTotal ==
    cmdline # <<>> /\ cmdline.parsed # None =>
        LET r == cmdline.parsed[1]
            w == Words(cmdline.s)
        IN  /\ r.res = "err" => r.why \in {"No command", "No filename", "Unknown command"}
            /\ r.res = "ok" /\ r.command.verb = "SaveAs" => r.command.arg # <<>>
            /\ Plain(cmdline.s) =>
                  r = IF w = <<>> THEN [res |-> "err", why |-> "No command"]
                      ELSE IF w[1] = set_filename
                      THEN [res |-> "ok",
                            command |-> SetFilename(IF Len(w) >= 2 THEN w[2] ELSE <<>>)]
                      ELSE IF w[1] = save_as
                      THEN IF Len(w) >= 2 THEN [res |-> "ok", command |-> SaveAs(w[2])]
                           ELSE [res |-> "err", why |-> "No filename"]
                      ELSE [res |-> "err", why |-> "Unknown command"]

(***************************************************************************)
(* C22.  With a viewport size that is positive in both axes, cap_scroll    *)
(* moves the scroll offset the least that shows the cursor, each axis on   *)
(* its own: a cursor inside [scroll, scroll + size - 1] keeps the scroll,  *)
(* a cursor before scroll makes scroll = cursor, a cursor after            *)
(* scroll + size - 1 makes scroll = cursor - size + 1; nothing but the     *)
(* scroll changes.  With a viewport of height 3 over 10 lines, moving the  *)
(* cursor to line 7 from scroll 0 gives scroll.y = 5.                      *)
(***************************************************************************)
MinimalScroll(cursor, scroll, size) ==
    IF cursor < scroll THEN cursor
    ELSE IF cursor > scroll + size - 1 THEN cursor - size + 1
    ELSE scroll

TenLines == [NewBuffer EXCEPT !.data = [y \in 1..10 |-> <<>>], !.viewport_size = Pos(1, 3)]

C23_CapScrollTotal ==
    Running =>
        \A cursor \in Coords \cup {buffer.cursor} :
            LET b == [buffer EXCEPT !.cursor = cursor]
                r == cap_scroll(b, build)
            IN  /\ r.res = "ok"
                /\ b.viewport_size.x = 0 => r.b.scroll.x <= cursor.x
                /\ b.viewport_size.y = 0 => r.b.scroll.y <= cursor.y

(***************************************************************************)
(* C24.  add_line_at_cursor at a cursor (x, y) inside a document that has  *)
(* lines, when it returns Ok, has replaced line y by its units [0, x),     *)
(* inserted the units from x on as a new line y + 1, left every other line *)
(* as it was and in order, and set the cursor to (0, y + 1).  On an empty  *)
(* document, inserting "hi", splitting and inserting "there" gives the     *)
(* lines "hi" and "there" and the cursor (5, 1).                           *)
(***************************************************************************)
\* The lines the claim describes.
LinesAfterSplit(data, cursor) ==
    [i \in 1..(Len(data) + 1) |->
        IF i <= cursor.y THEN data[i]
        ELSE IF i = cursor.y + 1 THEN SubSeq(data[cursor.y + 1], 1, cursor.x)
        ELSE IF i = cursor.y + 2
        THEN SubSeq(data[cursor.y + 1], cursor.x + 1, Len(data[cursor.y + 1]))
        ELSE data[i - 1]]

HiThere ==
    LET hi == add_str_at_cursor(set_viewport_size(NewBuffer, Pos(1, 1)), <<"h", "i">>, build)
        split == add_line_at_cursor(hi.b, build)
    IN  add_str_at_cursor(split.b, <<"t", "h", "e", "r", "e">>, build)

ColumnPastEnd(b) == b.cursor.x > LineLen(b.data, b.cursor.y)

C25_InsertReportsOutOfBounds ==
    Running =>
        \A text \in Texts :
            LET r == add_str_at_cursor(buffer, text, build)
            IN  /\ CursorInBounds(buffer) => r.res = "ok"
                /\ ColumnPastEnd(buffer) => r.res = "err" /\ r.b.data = buffer.data

(***************************************************************************)
(* C26.  The operations agree on the addressable unit: once a character of *)
(* more than one byte has been inserted, delete_n_chars_back_from_cursor(1)*)
(* succeeds, move_left_n(1) followed by add_str_at_cursor succeeds, and    *)
(* add_line_at_cursor succeeds, at the cursor and after the move_left_n.   *)
(***************************************************************************)
MultiByteInserted ==
    /\ op = [name |-> "add_str_at_cursor", res |-> "ok"]
    /\ before.kind = "add_str"
    /\ before.n > 1
    /\ CursorInBounds(before.b)

C26_ConsistentUnit ==
    MultiByteInserted =>
        LET left == move_left_n(buffer, 1, build)
        IN  /\ delete_n_chars_back_from_cursor(buffer, 1, build).res = "ok"
            /\ add_line_at_cursor(buffer, build).res = "ok"
            /\ left.res = "ok"
            /\ \A text \in Texts : add_str_at_cursor(left.b, text, build).res = "ok"
            /\ add_line_at_cursor(left.b, build).res = "ok"

(***************************************************************************)
(* C27.  get_viewport yields, in increasing y, exactly one entry for each  *)
(* y in [scroll.y, scroll.y + viewport_size.y) at which there is a line,   *)
(* with the text of line y and the screen position                         *)
(* top_left_corner + (0, y - scroll.y); it yields at most viewport_size.y  *)
(* entries.  For every top_left_corner the setter can store.               *)
(***************************************************************************)
\* The lines of the window that exist.
WindowLines(b) ==
    {y \in b.scroll.y..(b.scroll.y + b.viewport_size.y - 1) : y < Len(b.data)}

C27_ViewportRows ==
    Running =>
        \A origin \in Coords :
            LET b == set_top_left_corner(buffer, origin)
                rows == get_viewport(b)
            IN  /\ Len(rows) = Cardinality(WindowLines(b))
                /\ Len(rows) <= b.viewport_size.y
                /\ \A k \in 1..Len(rows) :
                       LET y == b.scroll.y + k - 1
                       IN  /\ y \in WindowLines(b)
                           /\ rows[k].line = b.data[y + 1]
                           /\ rows[k].pos = PosAdd(origin, Pos(0, y - b.scroll.y))

(***************************************************************************)
(* C28.  In every reachable CommandMode state the height of the command    *)
(* buffer's viewport is min(window height - 1, number of lines of the      *)
(* command buffer): a character typed into the empty command buffer has a  *)
(* row to be shown on.                                                     *)
(***************************************************************************)
C28_CommandViewportFollowsLines ==
    Running /\ editor.state = "CommandMode" =>
        editor.command_buffer.viewport_size.y =
            Min(SatSub(editor.window_size.y, 1), Len(editor.command_buffer.data))

(***************************************************************************)
(* C29.  A press of the left button in EditMode on a cell (c, r) of the    *)
(* edit buffer's viewport puts the cursor on the document position shown   *)
(* there, (scroll.x + c - origin.x, scroll.y + r - origin.y) clamped into  *)
(* the document, wherever the cursor was before.                           *)
(***************************************************************************)
InsideViewport(b, cell) ==
    /\ b.top_left_corner.x <= cell.x /\ cell.x < b.top_left_corner.x + b.viewport_size.x
    /\ b.top_left_corner.y <= cell.y /\ cell.y < b.top_left_corner.y + b.viewport_size.y

\* The position clamped into the document, line first.
ClampToDocument(data, pos) ==
    LET y == Min(pos.y, SatSub(Len(data), 1))
    IN  Pos(Min(pos.x, LineLen(data, y)), y)

C29_ClickPlacesCursor ==
    Running /\ editor.state = "EditMode" =>
        \A cell \in Coords :
            LET b == editor.edit_buffer
                o == process_event(editor, [type |-> "DownLeft", pos |-> cell], build, "ok")
            IN  InsideViewport(b, cell) /\ o.res = "ok" =>
                    o.e.edit_buffer.cursor =
                        ClampToDocument(b.data,
                                        Pos(b.scroll.x + cell.x - b.top_left_corner.x,
                                            b.scroll.y + cell.y - b.top_left_corner.y))

(***************************************************************************)
(* C30.  In every buffer state with a viewport positive in both axes, the  *)
(* screen position of the cursor agrees with the rows get_viewport yields: *)
(* the row of line cursor.y is on screen row get_viewport_pos.y, and the   *)
(* unit drawn at screen column get_viewport_pos.x of that row is the unit  *)
(* at index cursor.x of the line, also when scroll.x > 0.                  *)
(***************************************************************************)
\* display prints the whole line from the position of its row: the index of
\* the unit that lands on a screen column.
DrawnIndex(row, column) == column - row.pos.x

C30_CursorOnItsCharacter ==
    /\ Running
    /\ buffer.viewport_size.x > 0 /\ buffer.viewport_size.y > 0
    /\ buffer.cursor.y \in WindowLines(buffer)
    => LET row == get_viewport(buffer)[buffer.cursor.y - buffer.scroll.y + 1]
           at == get_viewport_pos(buffer)
       IN  /\ row.line = buffer.data[buffer.cursor.y + 1]
           /\ row.pos.y = at.y
           /\ DrawnIndex(row, at.x) = buffer.cursor.x

(***************************************************************************)
(* C31.  A SaveAs command whose write fails, run by the key bound to it or *)
(* by Enter on the command line, returns the error and leaves the Editor   *)
(* as it was before the command: the filename keeps its value, and the     *)
(* state, the edit buffer and the command buffer are unchanged.            *)
(***************************************************************************)
\* The events that run a SaveAs command in the Editor as it is.
RunsSaveAs(ev) ==
    \/ ev.type = "Bound" /\ ev.a = "Command" /\ ev.command.verb = "SaveAs"
    \/ /\ ev.type = "Enter"
       /\ editor.state = "CommandMode"
       /\ LET parsed == from_str(get_contents(editor.command_buffer))
          IN  parsed.res = "ok" /\ parsed.command.verb = "SaveAs"

C31_FailedSaveAsChangesNothing ==
    Running /\ editor.state \in {"EditMode", "CommandMode"} =>
        \A ev \in KeyEvents :
            RunsSaveAs(ev) =>
                LET o == process_event(editor, ev, build, "err")
                IN  /\ o.res = "err"
                    /\ o.wrote = <<>>
                    /\ o.e.filename = editor.filename
                    /\ o.e.state = editor.state
                    /\ o.e.edit_buffer = editor.edit_buffer
                    /\ o.e.command_buffer = editor.command_buffer

====
